---- MODULE Spec2Model ----
(***************************************************************************)
(* Mail polling and token lifecycle engine of gmail_oauth/__init__.py:     *)
(* the email_tokens and email_seen tables, get_valid_token, the provider   *)
(* list / fetch calls, push_to_n8n, mark_seen and the gmail_poll /         *)
(* outlook_poll passes, one step per store or network access.              *)
(***************************************************************************)
EXTENDS Integers, Sequences, FiniteSets, Bags, TLC

\* ------------------------------------------------------------------ values
\* Python None / an absent JSON key is the empty tuple, a present value v is <<v>>.
None == <<>>
Some(v) == <<v>>
Val(x) == x[1]

\* Python truthiness of an optional number: None and 0 are falsy.
TruthyInt(x) == x # None /\ Val(x) # 0
\* Python truthiness of an optional string: None and "" are falsy.
TruthyStr(x) == x # None /\ Val(x) # ""

\* `x or 0`
OrZero(x) == IF TruthyInt(x) THEN Val(x) ELSE 0

\* ------------------------------------------------------------------ bounds
\* Poll passes started in one behaviour.
MaxPasses == 2
\* The clock runs from 0 to MaxNow ticks.
MaxNow == 2
\* Clock ticks per second: the clock is finer than the whole seconds the code compares.
TicksPerSecond == 2
\* Ids in one list response (maxResults / $top, 50 in the code).
PageSize == 2

\* ------------------------------------------------------- program constants
\* get_valid_token: now < expires_at_epoch - 60
FreshMargin == 60
\* new.get("expires_in", 3600)
DefaultLifetime == 3600
\* after_ts_ms/1000, ms/1000, timestamp() * 1000
MsPerSecond == 1000

\* ------------------------------------------------------------- environment
Procs == {1, 2}
Accounts == {1, 2}
Users == {"u1", "u2"}
Providers == {"gmail", "outlook"}
Messages == {"m0", "m1", "m2", "m3", "m4", "m5", "m6"}

\* The provider's timestamp of a message in epoch milliseconds
\* (Gmail internalDate, Outlook receivedDateTime); m4 carries none; m5 and m6
\* were received in the same second and carry the same timestamp.
MessageTs(m) ==
    CASE m = "m0" -> Some(1300)
      [] m = "m1" -> Some(900)
      [] m = "m2" -> Some(1500)
      [] m = "m3" -> Some(1200)
      [] m = "m5" -> Some(2000)
      [] m = "m6" -> Some(2000)
      [] OTHER    -> None

\* The time the provider received a message, in epoch milliseconds: what the
\* `after:` query and the receivedDateTime filter and ordering of a list call go
\* by. m4 was received at 700 ms.
MessageDate(m) == IF MessageTs(m) = None THEN 700 ELSE Val(MessageTs(m))

\* The subject line of a message.
MessageSubject(m) == IF m = "m4" THEN "Hello" ELSE "Invoices"

\* The messages in the mailbox behind a linked account. m0, the message account 1
\* was last polled up to, has been deleted from its mailbox since.
LinkedMailbox(a) == IF a = 1 THEN {"m1", "m2", "m3"} ELSE {"m3", "m4"}

VARIABLES
    email_tokens,      \* table email_tokens: account id -> row
    email_seen,        \* table email_seen: bag of <<user_id, message_id>> records
    now,               \* wall clock, in ticks
    N8N_WEBHOOK_URL,   \* whether the sink endpoint is configured
    inbox,             \* the messages the provider holds for each account
    pc,                \* per pass: position in gmail_poll / outlook_poll
    provider,          \* per pass: which poll endpoint runs
    rows,              \* per pass: the rows read by the initial select
    idx,               \* per pass: index of the current row in rows
    token,             \* per pass: access token returned by get_valid_token
    last_ts_ms,        \* per pass: row.get("last_sync_ts") of the current row
    msg_ids,           \* per pass: the ids returned by the list call
    mi,                \* per pass: index of the current id in msg_ids
    max_ms,            \* per pass: max_internal_ms / max_recv_ms
    processed,         \* per pass: the processed counter
    result,            \* per pass: the response of the last finished pass
    outcome,           \* per pass: what happened to each id of msg_ids so far
    processed0,        \* per pass: processed at the start of the current row
    skipped,           \* per pass: rows of this pass skipped by a token error
    completed,         \* per pass: rows of this pass whose id loop ran to its end
    seen0,             \* per pass: the ledger's keys when the current row was listed
    io,                \* the network and store calls made by the last step
    fetched,           \* <<user, message>> pairs whose fetch returned the message
    pushCalls,         \* number of push_to_n8n calls, per <<user, message>>
    delivered,         \* <<user, message>> pairs whose POST the sink answered
    pushFailed,        \* <<user, message>> pairs whose POST raised
    markCalls,         \* number of mark_seen calls, per <<user, message>>
    seenBy,            \* <<account, message>> pairs: mark_seen was called for the message
                       \* while the account's row was polled
    passes,            \* number of passes started
    settings,          \* the last POST /oauth/gmail/settings: its body and its response
    oauth              \* the last GET /oauth/<provider>/callback: its query and its outcome

store == <<email_tokens, email_seen>>
env == <<now, N8N_WEBHOOK_URL, inbox>>
locals == <<pc, provider, rows, idx, token, last_ts_ms, msg_ids, mi, max_ms,
            processed, result, outcome, processed0, skipped, completed, seen0>>
history == <<fetched, pushCalls, delivered, pushFailed, markCalls, seenBy, passes>>
vars == <<store, env, locals, io, history, settings, oauth>>

Keys == Users \X Messages

\* The messages in the mailbox behind an account.
Mailbox(a) == inbox[a]

\* ---------------------------------------------------------------- helpers
\* _to_epoch_seconds: None -> 0, else the timestamp truncated to whole seconds.
ToEpochSeconds(value) == IF value = None THEN 0 ELSE Val(value) \div TicksPerSecond

\* int(time.time())
TimeTime == now \div TicksPerSecond

\* The ledger is not consulted: no id counts as seen.
already_seen_never(user_id, msg_id) == FALSE

\* already_seen: the select on (user_id, message_id) returns at least one record.
already_seen(user_id, msg_id) == CopiesIn(<<user_id, msg_id>>, email_seen) > 0

\* A plain insert: a second insert of the same key adds a second record.
PlainInsert(table, rec) == table (+) SetToBag({rec})

\* upsert(..., on_conflict="user_id,message_id"): insert unless the key exists.
Upsert(table, rec) == IF BagIn(rec, table) THEN table ELSE table (+) SetToBag({rec})

\* The margin left out: a token counts as fresh up to its expiry.
IsFreshNoMargin(row, t) ==
    LET expires_at_epoch == ToEpochSeconds(row.expires_at)
    IN  expires_at_epoch # 0 /\ t < expires_at_epoch

\* get_valid_token: `expires_at_epoch and now < (expires_at_epoch - 60)`
IsFresh(row, t) ==
    LET expires_at_epoch == ToEpochSeconds(row.expires_at)
    IN  expires_at_epoch # 0 /\ t < expires_at_epoch - FreshMargin

\* A missing refresh token is not noticed.
HasRefreshTokenAlways(row) == TRUE

\* get_valid_token: `rt = row.get("refresh_token"); if not rt: raise`
HasRefreshToken(row) == TruthyStr(row.refresh_token)

\* The updates dict with the refresh_token of the response always in it.
RefreshUpdatesOverwrites(row, new) ==
    LET lifetime == IF new.expires_in = None THEN DefaultLifetime ELSE Val(new.expires_in)
    IN  [row EXCEPT !.access_token = new.access_token,
                    !.expires_at = Some(now + lifetime * TicksPerSecond),
                    !.refresh_token = new.refresh_token]

\* The updates dict without expires_at.
RefreshUpdatesKeepsExpiry(row, new) ==
    IF TruthyStr(new.refresh_token)
    THEN [row EXCEPT !.access_token = new.access_token,
                     !.refresh_token = new.refresh_token]
    ELSE [row EXCEPT !.access_token = new.access_token]

\* get_valid_token: the updates dict written after a successful refresh.
RefreshUpdates(row, new) ==
    LET lifetime == IF new.expires_in = None THEN DefaultLifetime ELSE Val(new.expires_in)
        base == [row EXCEPT !.access_token = new.access_token,
                            !.expires_at = Some(now + lifetime * TicksPerSecond)]
    IN  IF TruthyStr(new.refresh_token)
        THEN [base EXCEPT !.refresh_token = new.refresh_token]
        ELSE base

\* A missing timestamp read as 1 ms in place of 0.
FetchedMsDefaultOne(m) == IF MessageTs(m) = None THEN 1 ELSE Val(MessageTs(m))

\* The timestamp of a fetched message in epoch ms:
\* int(msg.get("internalDate", "0")) / recv_ms ... if rdt else 0
FetchedMs(m) == OrZero(MessageTs(m))

\* The running maximum replaced by the last timestamp fetched.
LastMs(cur, ms) == ms

\* `if internal_ms > max_internal_ms: max_internal_ms = internal_ms`
NewMax(cur, ms) == IF ms > cur THEN ms ELSE cur

\* The smallest / largest timestamp among a non-empty set of messages.
Oldest(S) == CHOOSE m \in S : \A o \in S : MessageDate(m) <= MessageDate(o)
Newest(S) == CHOOSE m \in S : \A o \in S : MessageDate(m) >= MessageDate(o)

RECURSIVE AscendingPage(_, _)
\* $orderby receivedDateTime asc, $top: the n oldest messages of S, oldest first.
AscendingPage(S, n) ==
    IF S = {} \/ n = 0 THEN <<>>
    ELSE <<Oldest(S)>> \o AscendingPage(S \ {Oldest(S)}, n - 1)

RECURSIVE DescendingPage(_, _)
\* Gmail messages.list, maxResults: the n newest messages of S, newest first.
DescendingPage(S, n) ==
    IF S = {} \/ n = 0 THEN <<>>
    ELSE <<Newest(S)>> \o DescendingPage(S \ {Newest(S)}, n - 1)

\* fetch_new_message_ids_gmail on a 200 response: q = after:<int(ms/1000)> and
\* subject:"<filter>", each only when its value is truthy; maxResults ids.
GmailList(a, after_ts_ms, subject) ==
    LET matches == {m \in Mailbox(a) :
            /\ TruthyInt(after_ts_ms) =>
                   MessageDate(m) \div MsPerSecond >= Val(after_ts_ms) \div MsPerSecond
            /\ TruthyStr(subject) => MessageSubject(m) = Val(subject)}
    IN  DescendingPage(matches, PageSize)

\* _epoch_ms_to_iso_utc: the watermark cut to whole seconds (replace(microsecond=0)).
EpochMsToIsoUtc(ms) == (ms \div MsPerSecond) * MsPerSecond

\* fetch_new_message_ids_outlook on a 200 response:
\* $filter receivedDateTime gt <iso> when the watermark is truthy, ascending, $top ids.
OutlookList(a, after_ts_ms) ==
    LET matches == {m \in Mailbox(a) :
            TruthyInt(after_ts_ms) => MessageDate(m) > EpochMsToIsoUtc(Val(after_ts_ms))}
    IN  AscendingPage(matches, PageSize)

\* The rows of one provider, in id order: select("*").eq("provider", prov).
RECURSIVE RowsOf(_, _)
RowsOf(S, prov) ==
    IF S = {} THEN <<>>
    ELSE LET a == CHOOSE x \in S : \A y \in S : x <= y
         IN  (IF email_tokens[a].provider = prov THEN <<email_tokens[a]>> ELSE <<>>)
             \o RowsOf(S \ {a}, prov)

\* The row the pass is at.
Row(p) == rows[p][idx[p]]
\* The id the pass is at.
MsgId(p) == msg_ids[p][mi[p]]

\* ------------------------------------------------------------------- Init
\* A token that expires FreshMargin + 1 seconds and one tick after time 0.
InitExpiry == (FreshMargin + 1) * TicksPerSecond + 1

InitRow(a, u, prov, rt, exp, ts) ==
    [id |-> a, user_id |-> u, provider |-> prov, access_token |-> "at0",
     refresh_token |-> rt, expires_at |-> exp, last_sync_ts |-> ts,
     subject_filter |-> None]

InitLocals ==
    /\ pc = [p \in Procs |-> "idle"]
    /\ provider = [p \in Procs |-> "gmail"]
    /\ rows = [p \in Procs |-> <<>>]
    /\ idx = [p \in Procs |-> 0]
    /\ token = [p \in Procs |-> ""]
    /\ last_ts_ms = [p \in Procs |-> None]
    /\ msg_ids = [p \in Procs |-> <<>>]
    /\ mi = [p \in Procs |-> 0]
    /\ max_ms = [p \in Procs |-> 0]
    /\ processed = [p \in Procs |-> 0]
    /\ result = [p \in Procs |-> [status |-> "none", processed |-> 0]]
    /\ outcome = [p \in Procs |-> <<>>]
    /\ processed0 = [p \in Procs |-> 0]
    /\ skipped = [p \in Procs |-> {}]
    /\ completed = [p \in Procs |-> {}]
    /\ seen0 = [p \in Procs |-> {}]

InitHistory ==
    /\ io = {}
    /\ fetched = {}
    /\ pushCalls = [k \in Keys |-> 0]
    /\ delivered = {}
    /\ pushFailed = {}
    /\ markCalls = [k \in Keys |-> 0]
    /\ seenBy = {<<1, "m0">>}
    /\ passes = 0

\* No settings request was made yet.
NoSettings ==
    [user_id |-> "", subject_filter |-> None, token_id |-> None, status |-> 0, updated |-> {}]

\* The ledger at the start: m0, whose timestamp is the watermark of account 1 and
\* which was recorded when account 1 was polled.
InitSeen == {<<"u1", "m0">>}

\* No callback request was made yet.
NoCallback ==
    [provider |-> "", state |-> "", exchange |-> "", insert |-> "", redirect |-> ""]

\* Two linked accounts. Account 1 is a Gmail account of u1 that has been polled
\* before (up to m0; the counters below count from here on); account 2 has never been polled and is a second Gmail account of u1
\* or an Outlook account of u2. Either may lack a refresh token; the token of
\* account 1 may carry no expiry.
Linked(boxes) ==
    /\ inbox = boxes
    /\ \E prov2 \in Providers,
          rt1 \in {None, Some("rt0")}, rt2 \in {None, Some("rt0")},
          exp1 \in {None, Some(InitExpiry)} :
          email_tokens = [a \in Accounts |->
              IF a = 1
              THEN InitRow(1, "u1", "gmail", rt1, exp1, MessageTs("m0"))
              ELSE InitRow(a, IF prov2 = "gmail" THEN "u1" ELSE "u2", prov2, rt2,
                           Some(InitExpiry), None)]
    /\ email_seen = SetToBag(InitSeen)
    /\ now = 0
    /\ N8N_WEBHOOK_URL \in BOOLEAN
    /\ InitLocals
    /\ InitHistory
    /\ settings = NoSettings
    /\ oauth = NoCallback

Init == Linked([a \in Accounts |-> LinkedMailbox(a)])

\* ---------------------------------------------------------------- actions
hist_but_passes == <<fetched, pushCalls, delivered, pushFailed, markCalls, seenBy>>

\* A call to a provider, the sink or the store: the operation, the account row and
\* the message it is about ("" when it is about none).
Call(op, a, m) == [op |-> op, acct |-> a, msg |-> m]

\* gmail_poll / outlook_poll: the initial select of the provider's rows succeeds.
PollStart(p, prov) ==
    /\ UNCHANGED <<settings, oauth>>
    /\ pc[p] = "idle"
    /\ passes < MaxPasses
    /\ passes' = passes + 1
    /\ provider' = [provider EXCEPT ![p] = prov]
    /\ rows' = [rows EXCEPT ![p] = RowsOf(Accounts, prov)]
    /\ idx' = [idx EXCEPT ![p] = 1]
    /\ processed' = [processed EXCEPT ![p] = 0]
    /\ processed0' = [processed0 EXCEPT ![p] = 0]
    /\ pc' = [pc EXCEPT ![p] = "account"]
    /\ io' = {Call("select_tokens", 0, "")}
    /\ UNCHANGED <<store, env, token, last_ts_ms, msg_ids, mi, max_ms, result, outcome,
                   skipped, completed, seen0, hist_but_passes>>

\* The failed select taken for an empty table: the handler answers ok, 0 processed.
PollSelectFailsAnswersOk(p, prov) ==
    /\ UNCHANGED <<settings, oauth>>
    /\ pc[p] = "idle"
    /\ passes < MaxPasses
    /\ passes' = passes + 1
    /\ provider' = [provider EXCEPT ![p] = prov]
    /\ result' = [result EXCEPT ![p] = [status |-> "ok", processed |-> 0]]
    /\ io' = {Call("select_tokens", 0, "")}
    /\ UNCHANGED <<store, env, pc, rows, idx, token, last_ts_ms, msg_ids, mi, max_ms,
                   processed, outcome, processed0, skipped, completed, seen0,
                   hist_but_passes>>

\* The initial select raises: gmail_poll answers 500 supabase_select_failed,
\* outlook_poll lets the exception out of the handler (a 500 as well).
PollSelectFails(p, prov) ==
    /\ UNCHANGED <<settings, oauth>>
    /\ pc[p] = "idle"
    /\ passes < MaxPasses
    /\ passes' = passes + 1
    /\ provider' = [provider EXCEPT ![p] = prov]
    /\ result' = [result EXCEPT ![p] = [status |-> "error", processed |-> 0]]
    /\ io' = {Call("select_tokens", 0, "")}
    /\ UNCHANGED <<store, env, pc, rows, idx, token, last_ts_ms, msg_ids, mi, max_ms,
                   processed, outcome, processed0, skipped, completed, seen0,
                   hist_but_passes>>

\* The pass is at a row and has not called get_valid_token for it yet.
AtRow(p) == pc[p] = "account" /\ idx[p] <= Len(rows[p])

\* What every branch of get_valid_token shares: the row's watermark is read.
EnterRow(p) ==
    /\ UNCHANGED <<settings, oauth>>
    /\ last_ts_ms' = [last_ts_ms EXCEPT ![p] = Row(p).last_sync_ts]
    /\ processed0' = [processed0 EXCEPT ![p] = processed[p]]
    /\ outcome' = [outcome EXCEPT ![p] = <<>>]
    /\ msg_ids' = [msg_ids EXCEPT ![p] = <<>>]
    /\ mi' = [mi EXCEPT ![p] = 0]
    /\ max_ms' = [max_ms EXCEPT ![p] = 0]
    /\ seen0' = [seen0 EXCEPT ![p] = {}]
    /\ UNCHANGED <<env, provider, rows, processed, result, email_seen, completed,
                   history>>

\* `break` in place of `continue`: a token error ends the loop over the rows.
SkipRowEndsPass(p) ==
    /\ idx' = [idx EXCEPT ![p] = Len(rows[p]) + 1]
    /\ skipped' = [skipped EXCEPT ![p] = skipped[p] \cup {Row(p).id}]
    /\ UNCHANGED <<pc, token, email_tokens>>

\* `except RuntimeError: continue`: the row is left for the next one.
SkipRow(p) ==
    /\ idx' = [idx EXCEPT ![p] = idx[p] + 1]
    /\ skipped' = [skipped EXCEPT ![p] = skipped[p] \cup {Row(p).id}]
    /\ UNCHANGED <<pc, token, email_tokens>>

\* get_valid_token: the token is still valid and is returned as stored in the row.
TokenFresh(p) ==
    /\ AtRow(p)
    /\ IsFresh(Row(p), TimeTime)
    /\ token' = [token EXCEPT ![p] = Row(p).access_token]
    /\ pc' = [pc EXCEPT ![p] = "list"]
    /\ EnterRow(p)
    /\ io' = {}
    /\ UNCHANGED <<idx, skipped, email_tokens>>

\* get_valid_token raises no_refresh_token.
TokenMissing(p) ==
    /\ AtRow(p)
    /\ ~IsFresh(Row(p), TimeTime)
    /\ ~HasRefreshToken(Row(p))
    /\ SkipRow(p)
    /\ EnterRow(p)
    /\ io' = {}

\* The refresh error swallowed: the pass goes on to list with the stored token.
RefreshFailsGoesOn(p) ==
    /\ AtRow(p)
    /\ ~IsFresh(Row(p), TimeTime)
    /\ HasRefreshToken(Row(p))
    /\ io' = {Call("refresh", Row(p).id, "")}
    /\ token' = [token EXCEPT ![p] = Row(p).access_token]
    /\ pc' = [pc EXCEPT ![p] = "list"]
    /\ EnterRow(p)
    /\ UNCHANGED <<idx, skipped, email_tokens>>

\* get_valid_token raises refresh_failed: status >= 400 or a transport error.
RefreshFails(p) ==
    /\ AtRow(p)
    /\ ~IsFresh(Row(p), TimeTime)
    /\ HasRefreshToken(Row(p))
    /\ io' = {Call("refresh", Row(p).id, "")}
    /\ SkipRow(p)
    /\ EnterRow(p)

\* get_valid_token refreshes: the response `new` is stored and its token returned.
RefreshOk(p, new) ==
    /\ AtRow(p)
    /\ ~IsFresh(Row(p), TimeTime)
    /\ HasRefreshToken(Row(p))
    /\ io' = {Call("refresh", Row(p).id, ""), Call("update_tokens", Row(p).id, "")}
    /\ email_tokens' = [email_tokens EXCEPT
           ![Row(p).id] = RefreshUpdates(email_tokens[Row(p).id], new)]
    /\ token' = [token EXCEPT ![p] = new.access_token]
    /\ pc' = [pc EXCEPT ![p] = "list"]
    /\ EnterRow(p)
    /\ UNCHANGED <<idx, skipped>>

\* What both outcomes of the list call share.
Listed(p, ids) ==
    /\ UNCHANGED <<settings, oauth>>
    /\ pc[p] = "list"
    /\ io' = {Call("list", Row(p).id, "")}
    /\ msg_ids' = [msg_ids EXCEPT ![p] = ids]
    /\ max_ms' = [max_ms EXCEPT ![p] = OrZero(last_ts_ms[p])]
    /\ mi' = [mi EXCEPT ![p] = 1]
    /\ seen0' = [seen0 EXCEPT ![p] = BagToSet(email_seen)]
    /\ pc' = [pc EXCEPT ![p] = "loop"]
    /\ UNCHANGED <<store, env, provider, rows, idx, token, last_ts_ms, processed,
                   result, outcome, processed0, skipped, completed, history>>

\* fetch_new_message_ids_gmail / _outlook: status 200.
ListOk(p) ==
    Listed(p, IF provider[p] = "gmail"
              THEN GmailList(Row(p).id, last_ts_ms[p], Row(p).subject_filter)
              ELSE OutlookList(Row(p).id, last_ts_ms[p]))

\* fetch_new_message_ids_gmail / _outlook: another status, `return []`.
ListFails(p) == Listed(p, <<>>)

\* The pass is at an id of the list.
AtId(p, where) == pc[p] = where /\ mi[p] <= Len(msg_ids[p])

Key(p) == <<Row(p).user_id, MsgId(p)>>

\* The id is done with: on to the next one.
NextId(p, what) ==
    /\ UNCHANGED <<settings, oauth>>
    /\ outcome' = [outcome EXCEPT ![p] = Append(@, what)]
    /\ mi' = [mi EXCEPT ![p] = mi[p] + 1]
    /\ pc' = [pc EXCEPT ![p] = "loop"]

\* `if already_seen(user_id, msg_id): continue`
SkipSeen(p) ==
    /\ AtId(p, "loop")
    /\ already_seen(Row(p).user_id, MsgId(p))
    /\ NextId(p, "seen")
    /\ io' = {Call("select_seen", Row(p).id, MsgId(p))}
    /\ UNCHANGED <<store, env, provider, rows, idx, token, last_ts_ms, msg_ids, max_ms,
                   processed, result, processed0, skipped, completed, seen0, history>>

\* already_seen is false: on to the fetch.
NotSeen(p) ==
    /\ UNCHANGED <<settings, oauth>>
    /\ AtId(p, "loop")
    /\ ~already_seen(Row(p).user_id, MsgId(p))
    /\ pc' = [pc EXCEPT ![p] = "fetch"]
    /\ io' = {Call("select_seen", Row(p).id, MsgId(p))}
    /\ UNCHANGED <<store, env, provider, rows, idx, token, last_ts_ms, msg_ids, mi,
                   max_ms, processed, result, outcome, processed0, skipped, completed, seen0, history>>

\* The message marked seen right after its fetch, push_to_n8n left out.
FetchOkSkipsPush(p) ==
    /\ UNCHANGED <<settings, oauth>>
    /\ AtId(p, "fetch")
    /\ io' = {Call("fetch", Row(p).id, MsgId(p))}
    /\ fetched' = fetched \cup {Key(p)}
    /\ max_ms' = [max_ms EXCEPT ![p] = NewMax(max_ms[p], FetchedMs(MsgId(p)))]
    /\ pc' = [pc EXCEPT ![p] = "mark"]
    /\ UNCHANGED <<store, env, provider, rows, idx, token, last_ts_ms, msg_ids, mi,
                   processed, result, outcome, processed0, skipped, completed, seen0,
                   pushCalls, delivered, pushFailed, markCalls, seenBy, passes>>

\* fetch_message_gmail / _outlook returns the message; the running maximum follows.
FetchOk(p) ==
    /\ UNCHANGED <<settings, oauth>>
    /\ AtId(p, "fetch")
    /\ io' = {Call("fetch", Row(p).id, MsgId(p))}
    /\ fetched' = fetched \cup {Key(p)}
    /\ max_ms' = [max_ms EXCEPT ![p] = NewMax(max_ms[p], FetchedMs(MsgId(p)))]
    /\ pc' = [pc EXCEPT ![p] = "push"]
    /\ UNCHANGED <<store, env, provider, rows, idx, token, last_ts_ms, msg_ids, mi,
                   processed, result, outcome, processed0, skipped, completed, seen0,
                   pushCalls, delivered, pushFailed, markCalls, seenBy, passes>>

\* `break` in the `except requests.RequestException` of the id loop: a failed
\* fetch ends the loop over the ids of the row.
FetchFailsEndsLoop(p) ==
    /\ AtId(p, "fetch")
    /\ io' = {Call("fetch", Row(p).id, MsgId(p))}
    /\ UNCHANGED <<settings, oauth>>
    /\ outcome' = [outcome EXCEPT ![p] = Append(@, "failed")]
    /\ mi' = [mi EXCEPT ![p] = Len(msg_ids[p]) + 1]
    /\ pc' = [pc EXCEPT ![p] = "loop"]
    /\ UNCHANGED <<store, env, provider, rows, idx, token, last_ts_ms, msg_ids, max_ms,
                   processed, result, processed0, skipped, completed, seen0, history>>

\* raise_for_status or the transport raises: `except requests.RequestException`.
FetchFails(p) ==
    /\ AtId(p, "fetch")
    /\ io' = {Call("fetch", Row(p).id, MsgId(p))}
    /\ NextId(p, "failed")
    /\ UNCHANGED <<store, env, provider, rows, idx, token, last_ts_ms, msg_ids, max_ms,
                   processed, result, processed0, skipped, completed, seen0, history>>

\* What every outcome of push_to_n8n shares.
Pushed(p) ==
    /\ UNCHANGED <<settings, oauth>>
    /\ AtId(p, "push")
    /\ pushCalls' = [pushCalls EXCEPT ![Key(p)] = @ + 1]
    /\ pc' = [pc EXCEPT ![p] = "mark"]
    /\ UNCHANGED <<store, env, provider, rows, idx, token, last_ts_ms, msg_ids, mi,
                   max_ms, processed, result, outcome, processed0, skipped, completed, seen0,
                   fetched, markCalls, seenBy, passes>>

\* push_to_n8n: `if not N8N_WEBHOOK_URL: return`
PushNoSink(p) ==
    /\ ~N8N_WEBHOOK_URL
    /\ Pushed(p)
    /\ io' = {}
    /\ UNCHANGED <<delivered, pushFailed>>

\* push_to_n8n: the POST is answered.
PushOk(p) ==
    /\ N8N_WEBHOOK_URL
    /\ Pushed(p)
    /\ io' = {Call("post", Row(p).id, MsgId(p))}
    /\ delivered' = delivered \cup {Key(p)}
    /\ UNCHANGED pushFailed

\* push_to_n8n without its try: the exception reaches the `except` of the id
\* loop, which goes on to the next id without mark_seen.
PushFailsRaises(p) ==
    /\ N8N_WEBHOOK_URL
    /\ AtId(p, "push")
    /\ pushCalls' = [pushCalls EXCEPT ![Key(p)] = @ + 1]
    /\ pushFailed' = pushFailed \cup {Key(p)}
    /\ io' = {Call("post", Row(p).id, MsgId(p))}
    /\ NextId(p, "failed")
    /\ UNCHANGED <<store, env, provider, rows, idx, token, last_ts_ms, msg_ids, max_ms,
                   processed, result, processed0, skipped, completed, seen0,
                   fetched, delivered, markCalls, seenBy, passes>>

\* push_to_n8n: the POST raises (transport error, timeout); logged and swallowed.
PushFails(p) ==
    /\ N8N_WEBHOOK_URL
    /\ Pushed(p)
    /\ io' = {Call("post", Row(p).id, MsgId(p))}
    /\ pushFailed' = pushFailed \cup {Key(p)}
    /\ UNCHANGED delivered

\* mark_seen with the watermark persisted per message.
MarkSeenWritesWatermark(p) ==
    /\ AtId(p, "mark")
    /\ email_seen' = Upsert(email_seen, Key(p))
    /\ email_tokens' = [email_tokens EXCEPT ![Row(p).id].last_sync_ts = Some(max_ms[p])]
    /\ markCalls' = [markCalls EXCEPT ![Key(p)] = @ + 1]
    /\ seenBy' = seenBy \cup {<<Row(p).id, MsgId(p)>>}
    /\ io' = {Call("upsert_seen", Row(p).id, MsgId(p))}
    /\ processed' = [processed EXCEPT ![p] = processed[p] + 1]
    /\ NextId(p, "done")
    /\ UNCHANGED <<env, provider, rows, idx, token, last_ts_ms, msg_ids,
                   max_ms, result, processed0, skipped, completed, seen0,
                   fetched, pushCalls, delivered, pushFailed, passes>>

\* mark_seen, then `processed += 1`.
MarkSeen(p) ==
    /\ AtId(p, "mark")
    /\ email_seen' = Upsert(email_seen, Key(p))
    /\ markCalls' = [markCalls EXCEPT ![Key(p)] = @ + 1]
    /\ seenBy' = seenBy \cup {<<Row(p).id, MsgId(p)>>}
    /\ io' = {Call("upsert_seen", Row(p).id, MsgId(p))}
    /\ processed' = [processed EXCEPT ![p] = processed[p] + 1]
    /\ NextId(p, "done")
    /\ UNCHANGED <<email_tokens, env, provider, rows, idx, token, last_ts_ms, msg_ids,
                   max_ms, result, processed0, skipped, completed, seen0,
                   fetched, pushCalls, delivered, pushFailed, passes>>

\* The id loop is over.
LoopOver(p) == pc[p] = "loop" /\ mi[p] > Len(msg_ids[p])

\* The end of the body of `for row in rows`.
RowDone(p) ==
    /\ UNCHANGED <<settings, oauth>>
    /\ completed' = [completed EXCEPT ![p] = completed[p] \cup {Row(p).id}]
    /\ idx' = [idx EXCEPT ![p] = idx[p] + 1]
    /\ pc' = [pc EXCEPT ![p] = "account"]

\* The value the row's watermark is set to.
WatermarkValue(p) == Some(max_ms[p])

\* The update without its .eq("id", row["id"]): every row gets the watermark.
WatermarkWriteAllRows(p) ==
    /\ LoopOver(p)
    /\ max_ms[p] # 0
    /\ email_tokens' = [a \in Accounts |->
           [email_tokens[a] EXCEPT !.last_sync_ts = Some(max_ms[p])]]
    /\ io' = {Call("update_watermark", Row(p).id, "")}
    /\ RowDone(p)
    /\ UNCHANGED <<email_seen, env, provider, rows, token, last_ts_ms, msg_ids, mi,
                   max_ms, processed, result, outcome, processed0, skipped, seen0,
                   history>>

\* `if max_internal_ms: update({"last_sync_ts": max_internal_ms}).eq("id", row["id"])`
WatermarkWrite(p) ==
    /\ LoopOver(p)
    /\ max_ms[p] # 0
    /\ email_tokens' = [email_tokens EXCEPT ![Row(p).id].last_sync_ts = WatermarkValue(p)]
    /\ io' = {Call("update_watermark", Row(p).id, "")}
    /\ RowDone(p)
    /\ UNCHANGED <<email_seen, env, provider, rows, token, last_ts_ms, msg_ids, mi,
                   max_ms, processed, result, outcome, processed0, skipped, seen0,
                   history>>

\* The update without its `if max_internal_ms:` guard: 0 is written.
WatermarkKeepWritesZero(p) ==
    /\ LoopOver(p)
    /\ max_ms[p] = 0
    /\ email_tokens' = [email_tokens EXCEPT ![Row(p).id].last_sync_ts = Some(0)]
    /\ io' = {Call("update_watermark", Row(p).id, "")}
    /\ RowDone(p)
    /\ UNCHANGED <<email_seen, env, provider, rows, token, last_ts_ms, msg_ids, mi,
                   max_ms, processed, result, outcome, processed0, skipped, seen0,
                   history>>

\* max_internal_ms is 0: no update.
WatermarkKeep(p) ==
    /\ LoopOver(p)
    /\ max_ms[p] = 0
    /\ io' = {}
    /\ RowDone(p)
    /\ UNCHANGED <<store, env, provider, rows, token, last_ts_ms, msg_ids, mi, max_ms,
                   processed, result, outcome, processed0, skipped, seen0, history>>

\* The handler is left with a response: the pass and its locals end.
EndPass(p, response) ==
    /\ UNCHANGED <<settings, oauth>>
    /\ result' = [result EXCEPT ![p] = response]
    /\ pc' = [pc EXCEPT ![p] = "idle"]
    /\ rows' = [rows EXCEPT ![p] = <<>>]
    /\ idx' = [idx EXCEPT ![p] = 0]
    /\ token' = [token EXCEPT ![p] = ""]
    /\ last_ts_ms' = [last_ts_ms EXCEPT ![p] = None]
    /\ msg_ids' = [msg_ids EXCEPT ![p] = <<>>]
    /\ mi' = [mi EXCEPT ![p] = 0]
    /\ max_ms' = [max_ms EXCEPT ![p] = 0]
    /\ processed' = [processed EXCEPT ![p] = 0]
    /\ processed0' = [processed0 EXCEPT ![p] = 0]
    /\ outcome' = [outcome EXCEPT ![p] = <<>>]
    /\ skipped' = [skipped EXCEPT ![p] = {}]
    /\ completed' = [completed EXCEPT ![p] = {}]
    /\ seen0' = [seen0 EXCEPT ![p] = {}]
    /\ UNCHANGED <<store, env, provider, history>>

\* `return {"status": "ok", "processed": processed}`
PollReturn(p) ==
    /\ pc[p] = "account"
    /\ idx[p] > Len(rows[p])
    /\ io' = {}
    /\ EndPass(p, [status |-> "ok", processed |-> processed[p]])

\* fetch_new_message_ids_gmail / _outlook: requests.get raises (no connection,
\* timeout). Nothing in the list function or in the poll handler catches it: the
\* request ends with a 500 and the rows after this one are not visited.
ListRaises(p) ==
    /\ pc[p] = "list"
    /\ io' = {Call("list", Row(p).id, "")}
    /\ EndPass(p, [status |-> "error", processed |-> 0])

\* The pass is cut short in the id loop of a row: the process dies, or a ledger or
\* store call (already_seen, mark_seen, the watermark update) raises, which nothing
\* in the handler catches. No response is built; the request ends as an error.
PassInterrupted(p) ==
    /\ pc[p] \in {"loop", "fetch", "push", "mark"}
    /\ io' = {}
    /\ EndPass(p, [status |-> "error", processed |-> 0])

\* Time passes. The clock is read by get_valid_token only, so the time that
\* passes between two reads is added just before a pass reads it.
Tick ==
    /\ now < MaxNow
    /\ \E p \in Procs : AtRow(p)
    /\ now' = now + 1
    /\ io' = {}
    /\ UNCHANGED <<store, N8N_WEBHOOK_URL, inbox, locals, history, settings, oauth>>

\* The refresh responses a provider may give: no refresh_token key and no
\* expires_in key; an empty refresh_token with a declared lifetime one second
\* longer than the freshness margin; a rotated refresh token with a declared
\* lifetime that is no longer than the freshness margin.
RefreshResponses ==
    {[access_token |-> "at1", refresh_token |-> None, expires_in |-> None],
     [access_token |-> "at1", refresh_token |-> Some(""),
      expires_in |-> Some(FreshMargin + 1)],
     [access_token |-> "at1", refresh_token |-> Some("rt1"),
      expires_in |-> Some(FreshMargin)]}

\* One step of pass p.
Step(p) ==
    \/ \E prov \in Providers : PollStart(p, prov)
    \/ \E prov \in Providers : PollSelectFails(p, prov)
    \/ TokenFresh(p)
    \/ TokenMissing(p)
    \/ RefreshFails(p)
    \/ \E new \in RefreshResponses : RefreshOk(p, new)
    \/ ListOk(p)
    \/ ListFails(p)
    \/ ListRaises(p)
    \/ SkipSeen(p)
    \/ NotSeen(p)
    \/ FetchOk(p)
    \/ FetchFails(p)
    \/ PushNoSink(p)
    \/ PushOk(p)
    \/ PushFails(p)
    \/ MarkSeen(p)
    \/ WatermarkWrite(p)
    \/ WatermarkKeep(p)
    \/ PollReturn(p)

\* Passes one after the other: one worker runs every pass to its end.
Next == Tick \/ Step(1)

Spec == Init /\ [][Next]_vars

\* Overlapping passes (two triggers of a poll endpoint at once): either pass may
\* take the next step. Account 1 must refresh, account 2 is an Outlook account
\* without a refresh token.
InitOverlap ==
    /\ Init
    /\ email_tokens[1].refresh_token # None
    /\ email_tokens[1].expires_at = None
    /\ email_tokens[2].provider = "outlook"
    /\ email_tokens[2].refresh_token = None

NextOverlap == Tick \/ \E p \in Procs : Step(p)

SpecOverlap == InitOverlap /\ [][NextOverlap]_vars

\* Passes one after the other, any of which may be cut short in an id loop. The
\* token of account 1 carries no expiry and account 2 has no refresh token.
InitCrash ==
    /\ Init
    /\ email_tokens[1].expires_at = None
    /\ email_tokens[2].refresh_token = None

NextCrash == Tick \/ Step(1) \/ PassInterrupted(1)

SpecCrash == InitCrash /\ [][NextCrash]_vars

\* Outlook passes one after the other on an inbox that holds more messages than a
\* page, or two messages received in the same second, or one message only. Every
\* token, list and fetch call succeeds. Account 2 is the Outlook account of u2.
PagingInboxes == {{"m1", "m2", "m3", "m4"}, {"m4", "m5", "m6"}, {"m4"}}

InitPaging ==
    /\ \E box \in PagingInboxes :
          Linked([a \in Accounts |-> IF a = 2 THEN box ELSE LinkedMailbox(a)])
    /\ email_tokens[2].provider = "outlook"
    /\ \A a \in Accounts :
          email_tokens[a].refresh_token # None /\ email_tokens[a].expires_at # None

PagingStep(p) ==
    \/ PollStart(p, "outlook")
    \/ TokenFresh(p)
    \/ \E new \in RefreshResponses : RefreshOk(p, new)
    \/ ListOk(p)
    \/ SkipSeen(p)
    \/ NotSeen(p)
    \/ FetchOk(p)
    \/ PushNoSink(p)
    \/ PushOk(p)
    \/ PushFails(p)
    \/ MarkSeen(p)
    \/ WatermarkWrite(p)
    \/ WatermarkKeep(p)
    \/ PollReturn(p)

NextPaging == Tick \/ PagingStep(1)

SpecPaging == InitPaging /\ [][NextPaging]_vars

\* ------------------------------------------------------- gmail settings
\* The bodies POST /oauth/gmail/settings is called with (GmailSettingsUpdate).
SettingsFilters == {None, Some("Invoices"), Some("Hello")}
SettingsTokenIds == {None, Some(0), Some(1), Some(2)}

\* The query of update_gmail_settings without its provider condition.
MatchedAnyProvider(user_id, token_id) ==
    {a \in Accounts :
        /\ email_tokens[a].user_id = user_id
        /\ TruthyInt(token_id) => email_tokens[a].id = Val(token_id)}

\* The rows the query of update_gmail_settings matches: .eq("user_id", ...),
\* .eq("provider", "gmail") and, `if settings.token_id`, .eq("id", token_id).
Matched(user_id, token_id) ==
    {a \in Accounts :
        /\ email_tokens[a].user_id = user_id
        /\ email_tokens[a].provider = "gmail"
        /\ TruthyInt(token_id) => email_tokens[a].id = Val(token_id)}

\* update_gmail_settings: the update is executed; the response carries the rows
\* the store returns, which are the updated rows.
update_gmail_settings(user_id, subject_filter, token_id) ==
    /\ email_tokens' = [a \in Accounts |->
           IF a \in Matched(user_id, token_id)
           THEN [email_tokens[a] EXCEPT !.subject_filter = subject_filter]
           ELSE email_tokens[a]]
    /\ settings' = [user_id |-> user_id, subject_filter |-> subject_filter,
                    token_id |-> token_id, status |-> 200,
                    updated |-> {email_tokens'[a] : a \in Matched(user_id, token_id)}]
    /\ io' = {Call("update_settings", 0, "")}
    /\ UNCHANGED <<email_seen, env, locals, history, oauth>>

\* update_gmail_settings: the store raises; the handler answers 500.
update_gmail_settings_fails(user_id, subject_filter, token_id) ==
    /\ settings' = [user_id |-> user_id, subject_filter |-> subject_filter,
                    token_id |-> token_id, status |-> 500, updated |-> {}]
    /\ io' = {Call("update_settings", 0, "")}
    /\ UNCHANGED <<store, env, locals, history, oauth>>

\* Settings requests on the accounts as linked, no pass running.
NextSettings ==
    \E user_id \in Users, subject_filter \in SettingsFilters, token_id \in SettingsTokenIds :
        \/ update_gmail_settings(user_id, subject_filter, token_id)
        \/ update_gmail_settings_fails(user_id, subject_filter, token_id)

SpecSettings == Init /\ [][NextSettings]_vars

\* ------------------------------------------------------- OAuth callbacks
\* Rows the callbacks insert in one behaviour.
MaxLinks == 2

\* The `state` query parameter: the user_id given to the initiate endpoint.
CallbackStates == Users \cup {"u3"}

\* The bodies a token endpoint answers a code exchange with (status 200): without
\* expires_in; without refresh_token; without access_token.
TokenResponses ==
    {[access_token |-> Some("at2"), refresh_token |-> Some("rt2"), expires_in |-> None],
     [access_token |-> Some("at2"), refresh_token |-> None, expires_in |-> Some(FreshMargin)],
     [access_token |-> None, refresh_token |-> Some("rt2"), expires_in |-> None]}

\* The row dict of the callback: user_id = state, the provider tag, the tokens of
\* the response, expires_at = utcnow() + expires_in (3600 by default),
\* last_sync_ts None; subject_filter is not given and is null in the table.
LinkedRow(a, prov, state, tok) ==
    LET lifetime == IF tok.expires_in = None THEN DefaultLifetime ELSE Val(tok.expires_in)
    IN  [id |-> a, user_id |-> state, provider |-> prov,
         access_token |-> Val(tok.access_token), refresh_token |-> tok.refresh_token,
         expires_at |-> Some(now + lifetime * TicksPerSecond), last_sync_ts |-> None,
         subject_filter |-> None]

\* The id the table gives the next row: one more than the largest.
NewId(table) == (CHOOSE a \in DOMAIN table : \A b \in DOMAIN table : b <= a) + 1

\* An upsert on (user_id, provider) in place of the insert: a row of the same user
\* and provider is overwritten.
InsertReplaces(table, prov, state, tok) ==
    IF \E a \in DOMAIN table : table[a].user_id = state /\ table[a].provider = prov
    THEN LET a == CHOOSE x \in DOMAIN table :
                      table[x].user_id = state /\ table[x].provider = prov
         IN  [table EXCEPT ![a] = LinkedRow(a, prov, state, tok)]
    ELSE table @@ (NewId(table) :> LinkedRow(NewId(table), prov, state, tok))

\* supabase.table("email_tokens").insert({...}).execute(): one more row.
Insert(table, prov, state, tok) ==
    table @@ (NewId(table) :> LinkedRow(NewId(table), prov, state, tok))

\* What every path through a callback shares: the code is posted to the token
\* endpoint and the user is redirected; polls and settings are not involved.
Callback(prov, state, exchange, insert, redirect) ==
    /\ oauth' = [provider |-> prov, state |-> state, exchange |-> exchange,
                 insert |-> insert, redirect |-> redirect]
    /\ UNCHANGED <<email_seen, env, locals, history, settings>>

\* gmail_oauth_callback / outlook_oauth_callback: the exchange is answered with a
\* status other than 200 (`return RedirectResponse(...connected=false)`) or raises
\* requests.RequestException (logged, then the same redirect).
oauth_callback_exchange_fails(prov, state, how) ==
    /\ io' = {Call("exchange", 0, "")}
    /\ Callback(prov, state, how, "", "false")
    /\ UNCHANGED email_tokens

\* The 200 response carries no access_token: token_data["access_token"] raises
\* KeyError before the insert is executed; `except Exception`, failure redirect.
oauth_callback_no_token(prov, state, tok) ==
    /\ tok.access_token = None
    /\ io' = {Call("exchange", 0, "")}
    /\ Callback(prov, state, "200", "", "false")
    /\ UNCHANGED email_tokens

\* The calls of a callback that got an access token: the exchange, for Gmail the
\* profile request of _fetch_gmail_address, and the insert.
CallbackCalls(prov) ==
    {Call("exchange", 0, ""), Call("insert_tokens", 0, "")}
        \cup (IF prov = "gmail" THEN {Call("profile", 0, "")} ELSE {})

\* The insert raises: `except Exception`, failure redirect; no row is stored.
oauth_callback_insert_fails(prov, state, tok) ==
    /\ tok.access_token # None
    /\ io' = CallbackCalls(prov)
    /\ Callback(prov, state, "200", "failed", "false")
    /\ UNCHANGED email_tokens

\* The row is inserted: `return RedirectResponse(...connected=true)`.
oauth_callback_ok(prov, state, tok) ==
    /\ tok.access_token # None
    /\ Cardinality(DOMAIN email_tokens) < Cardinality(Accounts) + MaxLinks
    /\ io' = CallbackCalls(prov)
    /\ email_tokens' = Insert(email_tokens, prov, state, tok)
    /\ Callback(prov, state, "200", "ok", "true")

\* Callback requests on the accounts as linked, no pass running.
NextOAuth ==
    \E prov \in Providers, state \in CallbackStates :
        \/ \E how \in {"non200", "raised"} : oauth_callback_exchange_fails(prov, state, how)
        \/ \E tok \in TokenResponses : oauth_callback_no_token(prov, state, tok)
        \/ \E tok \in TokenResponses : oauth_callback_insert_fails(prov, state, tok)
        \/ \E tok \in TokenResponses : oauth_callback_ok(prov, state, tok)

\* Both accounts hold a refresh token and an expiry and the sink is configured:
\* the callbacks read none of them.
InitOAuth ==
    /\ Init
    /\ N8N_WEBHOOK_URL
    /\ \A a \in Accounts :
          email_tokens[a].refresh_token # None /\ email_tokens[a].expires_at # None

SpecOAuth == InitOAuth /\ [][NextOAuth]_vars

\* ------------------------------------------------------------------ claims
\* The ledger holds a record for the key (read off the table, not through already_seen).
InLedger(k) == BagIn(k, email_seen)

\* Pass p takes the step: its position changes.
Steps(p) == pc'[p] # pc[p] \/ idx'[p] # idx[p] \/ mi'[p] # mi[p]

\* The row pass p has just left, and whether it left it by completing its id loop.
PrevRow(p) == rows[p][idx[p] - 1]
Done(p) == pc[p] = "account" /\ idx[p] > 1 /\ PrevRow(p).id \in completed[p]

\* The key of the i-th id of the list of the row pass p has just completed.
KeyAt(p, i) == <<PrevRow(p).user_id, msg_ids[p][i]>>

\* The keys of the list that were not in the ledger when the row was listed.
NewKeys(p) == {KeyAt(p, i) : i \in 1..Len(msg_ids[p])} \ seen0[p]

\* The pass has visited all its rows.
PassOver(p) == pc[p] = "account" /\ idx[p] > Len(rows[p])

\* The freshness the contract speaks of: expiry - now > 60 s, in the whole
\* seconds the code compares; a row without expiry is never fresh.
ClaimFresh(row) ==
    row.expires_at # None /\ ToEpochSeconds(row.expires_at) - TimeTime > FreshMargin

\* A row whose token is not fresh and that has no refresh token.
NoRtStale(row) == ~ClaimFresh(row) /\ ~TruthyStr(row.refresh_token)

\* The keys of the ids of pass p's list whose outcome is `what`.
KeysWith(p, what) ==
    {<<PrevRow(p).user_id, msg_ids[p][i]>> :
        i \in {j \in 1..Len(outcome[p]) : outcome[p][j] = what}}

\* The largest of a number and the timestamps of a set of keys.
RECURSIVE MaxOver(_, _)
MaxOver(n, K) ==
    IF K = {} THEN n
    ELSE LET k == CHOOSE x \in K : TRUE
             rest == MaxOver(n, K \ {k})
         IN  IF FetchedMs(k[2]) > rest THEN FetchedMs(k[2]) ELSE rest

\* The calls of one kind the step makes.
Sent(op) == {c \in io' : c.op = op}

\* C1: over passes that do not overlap, no step lowers the stored watermark of an
\* account (null counted as 0), whatever fails in the pass.
C1_WatermarkNonDecreasing ==
    [][\A a \in Accounts :
          OrZero(email_tokens'[a].last_sync_ts) >= OrZero(email_tokens[a].last_sync_ts)]_vars

\* C1 witness: account 1 (watermark 1300) has just had its watermark written in a
\* pass that fetched m3 (timestamp 1200, older than the watermark) and is still at 1300.
C1_Witness ==
    /\ io = {Call("update_watermark", 1, "")}
    /\ <<"u1", "m3">> \in fetched
    /\ email_tokens[1].last_sync_ts = Some(1300)

\* C2: also when two passes for the same account overlap, the stored watermark
\* never takes a value lower than one it held before.
C2_WatermarkNeverLowered ==
    [][~ \E a \in Accounts :
            OrZero(email_tokens'[a].last_sync_ts) < OrZero(email_tokens[a].last_sync_ts)]_vars

\* The row pass p is at while it works on the ids of a list.
InLoop(p) == pc[p] \in {"loop", "fetch", "push", "mark"}

\* C3: when pass p checks an id whose (user_id, id) pair is in the ledger, its
\* step makes no call but the ledger lookup, fetches nothing, pushes nothing, marks nothing, leaves the processed
\* counter and the running maximum alone and moves on to the next id; and a
\* pass is at the fetch, push or mark_seen of an id only if the pair is not
\* in the ledger.
C3_SeenIdSkipped ==
    /\ [][\A p \in Procs :
            (AtId(p, "loop") /\ InLedger(Key(p)) /\ Steps(p)) =>
                /\ io' = {Call("select_seen", Row(p).id, MsgId(p))}
                /\ fetched' = fetched
                /\ pushCalls' = pushCalls
                /\ delivered' = delivered
                /\ markCalls' = markCalls
                /\ email_seen' = email_seen
                /\ processed'[p] = processed[p]
                /\ max_ms'[p] = max_ms[p]
                /\ mi'[p] = mi[p] + 1
                /\ pc'[p] = "loop"]_vars
    /\ [](\A p \in Procs : pc[p] \in {"fetch", "push", "mark"} => ~InLedger(Key(p)))

\* C3 witness: a second pass has just skipped m2, which the first pass had fetched
\* and marked seen, and m2 has been pushed once only.
C3_Witness ==
    \E p \in Procs :
        /\ pc[p] = "loop"
        /\ mi[p] = 2
        /\ msg_ids[p][1] = "m2"
        /\ outcome[p] = <<"seen">>
        /\ io = {Call("select_seen", 1, "m2")}
        /\ <<"u1", "m2">> \in fetched
        /\ pushCalls[<<"u1", "m2">>] = 1

\* C4: each message is pushed at most once per user, also over overlapping passes.
C4_PushedAtMostOnce == \A k \in Keys : pushCalls[k] <= 1

\* C5: every key mark_seen was called for has exactly one record in the ledger,
\* however often and from whichever pass it was called, and already_seen is true
\* of it; the other keys are as they were at the start (one record for the key
\* recorded then, none for a key mark_seen was never called for).
C5_MarkSeenIdempotent ==
    \A k \in Keys :
        /\ CopiesIn(k, email_seen) = (IF markCalls[k] > 0 \/ k \in InitSeen THEN 1 ELSE 0)
        /\ markCalls[k] > 0 => already_seen(k[1], k[2])

\* C5 witness: two overlapping passes have both called mark_seen for (u1, m2).
C5_Witness == markCalls[<<"u1", "m2">>] = 2 /\ CopiesIn(<<"u1", "m2">>, email_seen) = 1

\* C6: a token failure of one account does not touch the others of the pass. At
\* the end of a pass every row was either skipped by a token error or completed,
\* and a row whose stored token is still fresh was completed; a completed row
\* had every id of its list looked at, every fetched id pushed and marked seen,
\* every id that was not in the ledger fetched or failed, and its stored
\* watermark is the maximum of its starting watermark and the fetched timestamps.
C6_PartialFailureIsolation ==
    \A p \in Procs :
        /\ PassOver(p) =>
              \A i \in 1..Len(rows[p]) :
                  /\ rows[p][i].id \in skipped[p] \cup completed[p]
                  /\ IsFresh(rows[p][i], TimeTime) => rows[p][i].id \in completed[p]
        /\ Done(p) =>
              /\ Len(outcome[p]) = Len(msg_ids[p])
              /\ \A i \in 1..Len(msg_ids[p]) :
                    /\ outcome[p][i] \in {"seen", "failed", "done"}
                    /\ outcome[p][i] = "seen" <=> KeyAt(p, i) \in seen0[p]
                    /\ outcome[p][i] = "done" =>
                          /\ InLedger(KeyAt(p, i))
                          /\ pushCalls[KeyAt(p, i)] >= 1
              /\ OrZero(email_tokens[PrevRow(p).id].last_sync_ts)
                     = MaxOver(OrZero(PrevRow(p).last_sync_ts), KeysWith(p, "done"))

\* C6 witness: a Gmail pass over accounts 1 and 2 is over; account 1 was skipped by
\* a token error, account 2 was completed, a message of it was processed and
\* its watermark has advanced from null to 1200.
C6_Witness ==
    \E p \in Procs :
        /\ PassOver(p)
        /\ skipped[p] = {1}
        /\ completed[p] = {2}
        /\ processed[p] >= 1
        /\ email_tokens[2].last_sync_ts = Some(1200)

\* C7 as stated: get_valid_token sends no refresh and writes nothing when
\* expiry - now > 60 s, and sends exactly one refresh whenever expiry - now <= 60 s
\* or the row has no expiry.
C7_RefreshIffNotFresh ==
    [][\A p \in Procs :
          (AtRow(p) /\ Steps(p)) =>
              IF ClaimFresh(Row(p))
              THEN /\ io' = {}
                   /\ email_tokens' = email_tokens
                   /\ token'[p] = Row(p).access_token
                   /\ pc'[p] = "list"
              ELSE Sent("refresh") = {Call("refresh", Row(p).id, "")}]_vars

\* C7 amended: as C7, but the one refresh is sent only when the row has a
\* non-empty refresh token; without one no refresh is sent and nothing is written.
C7_RefreshIffNotFreshAndToken ==
    [][\A p \in Procs :
          (AtRow(p) /\ Steps(p)) =>
              IF ClaimFresh(Row(p))
              THEN /\ io' = {}
                   /\ email_tokens' = email_tokens
                   /\ token'[p] = Row(p).access_token
                   /\ pc'[p] = "list"
              ELSE IF TruthyStr(Row(p).refresh_token)
                   THEN Sent("refresh") = {Call("refresh", Row(p).id, "")}
                   ELSE io' = {} /\ email_tokens' = email_tokens]_vars

\* C7 witness: a refresh has just been sent for a row at the boundary,
\* expiry - now = 60 s exactly.
C7_Witness ==
    \E p \in Procs :
        /\ pc[p] = "list"
        /\ Call("refresh", Row(p).id, "") \in io
        /\ token[p] # Row(p).access_token
        /\ ToEpochSeconds(Row(p).expires_at) - TimeTime = FreshMargin

\* C8: for a row that is not fresh and has no refresh token, the step of the pass
\* sends no refresh, writes nothing to either table, lists, fetches, pushes and
\* marks nothing, leaves processed alone and goes on to the next row; the pass
\* never works on the ids of a row it skipped; and such a row stays as it is,
\* so that every later pass skips it again.
C8_NoRefreshTokenIsTerminal ==
    /\ [][\A p \in Procs :
            (AtRow(p) /\ NoRtStale(Row(p)) /\ Steps(p)) =>
                /\ io' = {}
                /\ UNCHANGED <<store, fetched, pushCalls, delivered, markCalls>>
                /\ processed'[p] = processed[p]
                /\ idx'[p] = idx[p] + 1
                /\ pc'[p] = "account"
                /\ Row(p).id \in skipped'[p]]_vars
    /\ [][\A a \in Accounts :
            NoRtStale(email_tokens[a]) => NoRtStale(email_tokens[a])']_vars
    /\ [](\A p \in Procs : (pc[p] = "list" \/ InLoop(p)) => Row(p).id \notin skipped[p])

\* C8 witness: the second Gmail pass has skipped account 1, which is not fresh, has
\* no refresh token and never had m2, which only its mailbox holds, fetched; the pass before it was a Gmail pass as
\* well (both accounts are Gmail accounts and it processed a message of account 2).
C8_Witness ==
    \E p \in Procs :
        /\ passes = 2
        /\ 1 \in skipped[p]
        /\ NoRtStale(email_tokens[1])
        /\ <<"u1", "m2">> \notin fetched
        /\ email_tokens[2].provider = "gmail"
        /\ result[p].status = "ok"
        /\ result[p].processed >= 1

\* C9: a completed row whose fetches all succeeded had every id that was not in
\* the ledger fetched, pushed and marked seen and every other id skipped; processed
\* grew by the number of such ids; the stored watermark is the maximum of the
\* starting watermark and their timestamps.
C9_PassResult ==
    \A p \in Procs :
        (Done(p) /\ KeysWith(p, "failed") = {}) =>
            /\ \A i \in 1..Len(msg_ids[p]) :
                  IF KeyAt(p, i) \in seen0[p]
                  THEN outcome[p][i] = "seen"
                  ELSE /\ outcome[p][i] = "done"
                       /\ KeyAt(p, i) \in fetched
                       /\ pushCalls[KeyAt(p, i)] >= 1
                       /\ InLedger(KeyAt(p, i))
            /\ processed[p] - processed0[p] = Cardinality(NewKeys(p))
            /\ OrZero(email_tokens[PrevRow(p).id].last_sync_ts)
                   = MaxOver(OrZero(PrevRow(p).last_sync_ts), NewKeys(p))

\* C9 witness: account 1 at watermark 1500, list [m2, m3], m2 in the ledger: only
\* m3 (timestamp 1200) was processed and the watermark is still 1500.
C9_Witness ==
    \E p \in Procs :
        /\ Done(p)
        /\ PrevRow(p).id = 1
        /\ PrevRow(p).last_sync_ts = Some(1500)
        /\ msg_ids[p] = <<"m2", "m3">>
        /\ outcome[p] = <<"seen", "done">>
        /\ processed[p] - processed0[p] = 1
        /\ email_tokens[1].last_sync_ts = Some(1500)

\* C10: a message whose POST to the sink raised is marked seen by the next step
\* of the pass and is never pushed a second time; the row is completed with the
\* message counted as processed, its timestamp in the watermark and every id of
\* the list looked at.
C10_PushFailureStillMarksSeen ==
    /\ \A k \in pushFailed :
          /\ InLedger(k) \/ \E p \in Procs : pc[p] = "mark" /\ Key(p) = k
          /\ pushCalls[k] = 1
    /\ \A p \in Procs :
          Done(p) =>
              /\ Len(outcome[p]) = Len(msg_ids[p])
              /\ processed[p] - processed0[p] = Cardinality(KeysWith(p, "done"))
              /\ \A i \in 1..Len(msg_ids[p]) :
                    (KeyAt(p, i) \in pushFailed /\ KeyAt(p, i) \notin seen0[p]) =>
                        /\ outcome[p][i] = "done"
                        /\ OrZero(email_tokens[PrevRow(p).id].last_sync_ts)
                               >= FetchedMs(msg_ids[p][i])

\* C10 witness: a second pass has skipped a message whose push had failed in
\* the first pass.
C10_Witness ==
    \E p \in Procs :
        /\ passes = 2
        /\ pc[p] = "loop"
        /\ mi[p] = 2
        /\ outcome[p] = <<"seen">>
        /\ Key(p) # <<Row(p).user_id, msg_ids[p][1]>>
        /\ <<Row(p).user_id, msg_ids[p][1]>> \in pushFailed
        /\ pushCalls[<<Row(p).user_id, msg_ids[p][1]>>] = 1

StoredList(a) ==
    IF email_tokens[a].provider = "gmail"
    THEN GmailList(a, email_tokens[a].last_sync_ts, email_tokens[a].subject_filter)
    ELSE OutlookList(a, email_tokens[a].last_sync_ts)

\* The ids in a list.
Ids(list) == {list[i] : i \in 1..Len(list)}

\* C12: once a row is completed, every id whose fetch failed in it is not in the
\* ledger and is in the list the next pass gets for the account from the
\* watermark now stored, so that the next pass fetches it again.
C12_FailedFetchRetried ==
    \A p \in Procs :
        Done(p) =>
            \A i \in 1..Len(msg_ids[p]) :
                outcome[p][i] = "failed" =>
                    /\ ~InLedger(KeyAt(p, i))
                    /\ msg_ids[p][i] \in Ids(StoredList(PrevRow(p).id))

\* The pass ends in this step.
Ends(p) == pc[p] # "idle" /\ pc'[p] = "idle"

\* C13: a pass that has read its account list ends with {status: ok, processed: n},
\* n the number of messages it processed, after it has visited every row of the
\* list once, each either skipped by a token error or completed.
C13_PassAlwaysEndsOk ==
    [][\A p \in Procs :
          Ends(p) =>
              /\ result'[p] = [status |-> "ok", processed |-> processed[p]]
              /\ idx[p] = Len(rows[p]) + 1
              /\ skipped[p] \cup completed[p] = {rows[p][i].id : i \in 1..Len(rows[p])}
              /\ skipped[p] \cap completed[p] = {}]_vars

\* The step is a settings request that was answered 200.
SettingsDone == settings'.status = 200 /\ Sent("update_settings") # {}

\* What C14 says of a settings request answered 200 that was to match the rows M:
\* the rows of M get the subject filter and nothing else changes in them, they are
\* the rows returned, and no other row and no ledger record changes.
SettingsFrame(M) ==
    /\ \A a \in Accounts :
          email_tokens'[a] =
              IF a \in M
              THEN [email_tokens[a] EXCEPT !.subject_filter = settings'.subject_filter]
              ELSE email_tokens[a]
    /\ settings'.updated = {email_tokens'[a] : a \in M}
    /\ DOMAIN email_tokens' = DOMAIN email_tokens
    /\ email_seen' = email_seen

MustRefresh(row) == ~ClaimFresh(row) /\ TruthyStr(row.refresh_token)

\* C15: a step of a pass that sends a refresh and gets no token from it makes no
\* other call, leaves both tables as they are, lists, fetches, pushes and marks
\* nothing and goes on to the next row with the row skipped; a row that must
\* refresh stays so, with its watermark, until a refresh of it succeeds; a pass reads
\* its rows as they are stored; and a pass at such a row sends a refresh for it and
\* reads the watermark that is in it. So the next pass refreshes again, with the
\* same watermark.
C15_RefreshFailureSkipsAccount ==
    /\ [][\A p \in Procs :
            (AtRow(p) /\ Steps(p) /\ Sent("refresh") # {} /\ Sent("update_tokens") = {}) =>
                /\ io' = {Call("refresh", Row(p).id, "")}
                /\ UNCHANGED <<store, fetched, pushCalls, delivered, markCalls>>
                /\ processed'[p] = processed[p]
                /\ idx'[p] = idx[p] + 1
                /\ pc'[p] = "account"
                /\ Row(p).id \in skipped'[p]]_vars
    /\ [][\A a \in Accounts :
            (MustRefresh(email_tokens[a]) /\ Call("update_tokens", a, "") \notin io') =>
                /\ MustRefresh(email_tokens[a])'
                /\ Call("update_watermark", a, "") \notin io' =>
                       email_tokens'[a].last_sync_ts = email_tokens[a].last_sync_ts]_vars
    /\ [](\A p \in Procs : AtRow(p) => Row(p) = email_tokens[Row(p).id])
    /\ [][\A p \in Procs :
            (AtRow(p) /\ Steps(p) /\ MustRefresh(Row(p))) =>
                /\ Call("refresh", Row(p).id, "") \in io'
                /\ last_ts_ms'[p] = Row(p).last_sync_ts]_vars

\* C15 witness: the refresh of account 1 has just failed in the second pass, as it
\* did in the first (a Gmail pass that processed a message of account 2): the row
\* of account 1 is as it was at the start, watermark 1300, token at0, no expiry.
C15_Witness ==
    \E p \in Procs :
        /\ passes = 2
        /\ io = {Call("refresh", 1, "")}
        /\ 1 \in skipped[p]
        /\ email_tokens[1].access_token = "at0"
        /\ email_tokens[1].expires_at = None
        /\ TruthyStr(email_tokens[1].refresh_token)
        /\ email_tokens[1].last_sync_ts = Some(1300)
        /\ email_tokens[2].provider = "gmail"
        /\ result[p].status = "ok"
        /\ result[p].processed >= 1

\* The row C16 expects in the store after a refresh answered `new`.
Refreshed(row, new) ==
    [row EXCEPT
        !.access_token = new.access_token,
        !.expires_at = Some(now + TicksPerSecond *
                            (IF new.expires_in = None THEN DefaultLifetime
                             ELSE Val(new.expires_in))),
        !.refresh_token = IF new.refresh_token \in {None, Some("")}
                          THEN row.refresh_token ELSE new.refresh_token]

\* C16: a step of a pass that stores refreshed tokens sends one refresh and one
\* update, both for the row the pass is at; for one of the provider's responses the
\* stored row is the previous one with the new access token, expiry = now + the
\* declared lifetime (3600 s when none is declared) and the refresh token of the
\* response if that is non-empty, every other field as before, and the token the
\* pass goes on with is the new one; no other row and no ledger record changes.
C16_RefreshSuccessPersists ==
    [][\A p \in Procs :
          (AtRow(p) /\ Steps(p) /\ Sent("update_tokens") # {}) =>
              LET a == Row(p).id IN
              /\ io' = {Call("refresh", a, ""), Call("update_tokens", a, "")}
              /\ \E new \in RefreshResponses :
                    /\ email_tokens'[a] = Refreshed(email_tokens[a], new)
                    /\ token'[p] = new.access_token
              /\ TruthyStr(email_tokens'[a].refresh_token)
              /\ \A b \in Accounts \ {a} : email_tokens'[b] = email_tokens[b]
              /\ email_seen' = email_seen]_vars

\* C16 witness: account 1 has just been refreshed one tick after the start by a
\* response without refresh token and lifetime: the new token at1 is stored with
\* expiry now + 3600 s, the refresh token rt0 and the watermark 1300 are kept.
C16_Witness ==
    \E p \in Procs :
        /\ pc[p] = "list"
        /\ io = {Call("refresh", 1, ""), Call("update_tokens", 1, "")}
        /\ now = 1
        /\ token[p] = "at1"
        /\ email_tokens[1].access_token = "at1"
        /\ email_tokens[1].expires_at = Some(now + DefaultLifetime * TicksPerSecond)
        /\ email_tokens[1].refresh_token = Some("rt0")
        /\ email_tokens[1].last_sync_ts = Some(1300)

\* A call of get_valid_token on the row as stored returns its token at once: it
\* takes the first return of the function, before any network call or update.
ReturnsStored(row) == IsFresh(row, TimeTime)

\* The lifetime a refresh response declares, 3600 s when it declares none.
Lifetime(new) == IF new.expires_in = None THEN DefaultLifetime ELSE Val(new.expires_in)

\* C17 as stated: when get_valid_token has returned a token to a pass, with or
\* without a refresh, a call on the stored row that follows at once returns the
\* same token without network call or update, whatever lifetime was declared.
C17_RetryMakesNoCall ==
    \A p \in Procs :
        pc[p] = "list" =>
            /\ ReturnsStored(email_tokens[Row(p).id])
            /\ email_tokens[Row(p).id].access_token = token[p]

\* C17 amended: the same, unless the call stored a refresh response whose declared
\* lifetime is 60 s or less.
C17_RetryMakesNoCallIfLongLived ==
    [][\A p \in Procs :
          (AtRow(p) /\ Steps(p) /\ pc'[p] = "list") =>
              LET a == Row(p).id IN
              (~ \E new \in RefreshResponses :
                    /\ Lifetime(new) <= FreshMargin
                    /\ Sent("update_tokens") # {}
                    /\ email_tokens'[a] = Refreshed(email_tokens[a], new)) =>
                  /\ ReturnsStored(email_tokens[a])'
                  /\ email_tokens'[a].access_token = token'[p]]_vars

\* C17 witness: get_valid_token has just stored a refresh with a declared lifetime
\* of 61 s, and a call that follows at once returns the stored token.
C17_Witness ==
    \E p \in Procs :
        /\ pc[p] = "list"
        /\ Call("update_tokens", Row(p).id, "") \in io
        /\ email_tokens[Row(p).id].expires_at = Some(now + (FreshMargin + 1) * TicksPerSecond)
        /\ ReturnsStored(email_tokens[Row(p).id])
        /\ email_tokens[Row(p).id].access_token = token[p]

\* C18: when the id loop of a row ends with a running maximum that is not above
\* the watermark the row was read with, the step issues no last_sync_ts update.
C18_WriteOnlyIfAdvanced ==
    [][\A p \in Procs :
          (LoopOver(p) /\ Steps(p) /\ max_ms[p] <= OrZero(Row(p).last_sync_ts)) =>
              Sent("update_watermark") = {}]_vars

\* The keys of the ids in the list of the row pass p is at.
ListKeys(p) == {<<Row(p).user_id, msg_ids[p][i]>> : i \in 1..Len(msg_ids[p])}

\* C19: a last_sync_ts update is issued only by the step that ends the id loop of a
\* row, for that row and once; while a pass is in the id loop of a row, the stored
\* watermark of the row is the one the pass read at its start; and when the pass is
\* cut short there, the watermark stays at that value and every id of its list that
\* is not in the ledger is in the list the next pass gets from that watermark, so
\* that the next pass skips the ids marked seen and processes the others.
C19_SingleWatermarkUpdate ==
    /\ [][Sent("update_watermark") # {} =>
            \E p \in Procs :
                /\ LoopOver(p)
                /\ io' = {Call("update_watermark", Row(p).id, "")}
                /\ idx'[p] = idx[p] + 1
                /\ pc'[p] = "account"]_vars
    /\ [](\A p \in Procs :
            InLoop(p) => email_tokens[Row(p).id].last_sync_ts = Row(p).last_sync_ts)
    /\ [][\A p \in Procs, a \in Accounts :
            (InLoop(p) /\ Ends(p) /\ a = Row(p).id) =>
                /\ email_tokens'[a].last_sync_ts = Row(p).last_sync_ts
                /\ \A k \in ListKeys(p) : ~InLedger(k)' => k[2] \in Ids(StoredList(a))']_vars

\* C19 witness: the first pass was cut short after it had marked m2 of account 1
\* (watermark 1300, list [m2, m3]) and before it reached m3; the second pass has
\* listed from 1300 again, skipped m2 and processed m3.
C19_Witness ==
    \E p \in Procs :
        /\ passes = 2
        /\ result[p].status = "error"
        /\ Done(p)
        /\ PrevRow(p).id = 1
        /\ PrevRow(p).last_sync_ts = Some(1300)
        /\ msg_ids[p] = <<"m2", "m3">>
        /\ outcome[p] = <<"seen", "done">>
        /\ <<"u1", "m3">> \in fetched

\* C20: a list call that hands the pass an empty id list makes no other call and
\* changes neither table; the row then ends without fetch, push or mark_seen, is
\* counted as completed, not as skipped, adds nothing to processed and has the
\* watermark value it was read with; and the pass goes on to the next row and, at
\* its end, has skipped or completed every row.
C20_ListFailureIsEmptyList ==
    /\ [][\A p \in Procs :
            (pc[p] = "list" /\ pc'[p] = "loop" /\ msg_ids'[p] = <<>>) =>
                /\ io' = {Call("list", Row(p).id, "")}
                /\ UNCHANGED <<store, fetched, pushCalls, delivered, markCalls>>
                /\ processed'[p] = processed[p]]_vars
    /\ [][\A p \in Procs :
            (LoopOver(p) /\ msg_ids[p] = <<>> /\ Steps(p)) =>
                /\ io' \subseteq {Call("update_watermark", Row(p).id, "")}
                /\ UNCHANGED <<email_seen, fetched, pushCalls, delivered, markCalls>>
                /\ idx'[p] = idx[p] + 1
                /\ pc'[p] = "account"]_vars
    /\ [](\A p \in Procs :
            /\ (Done(p) /\ msg_ids[p] = <<>>) =>
                  /\ PrevRow(p).id \in completed[p] \ skipped[p]
                  /\ processed[p] = processed0[p]
                  /\ email_tokens[PrevRow(p).id].last_sync_ts = PrevRow(p).last_sync_ts
            /\ PassOver(p) =>
                  \A i \in 1..Len(rows[p]) : rows[p][i].id \in skipped[p] \cup completed[p])

\* C20 witness: the list call for account 1 (watermark 1300, a fresh token, ids to
\* list in its mailbox) was answered with a non-200 status: the row has ended with
\* an empty id list, nothing processed and the watermark 1300, and the pass is at
\* account 2.
C20_Witness ==
    \E p \in Procs :
        /\ Done(p)
        /\ PrevRow(p).id = 1
        /\ msg_ids[p] = <<>>
        /\ StoredList(1) # <<>>
        /\ AtRow(p)
        /\ Row(p).id = 2
        /\ processed[p] = 0
        /\ email_tokens[1].last_sync_ts = Some(1300)

\* The ids of the list of the row pass p has just completed whose outcome is `what`.
IdsWith(p, what) == {i \in 1..Len(outcome[p]) : outcome[p][i] = what}

\* C21: the step in which a fetch fails makes the fetch call only, writes neither
\* table, pushes and marks nothing, leaves processed and the running maximum as
\* they were and moves the pass to the next id of the list; and when the row is
\* completed, every id of the list has been looked at, a failed id is not in the
\* ledger, processed has grown by the number of ids marked seen, and every id
\* after a failed one was skipped exactly if it was in the ledger and otherwise
\* its fetch was attempted and, when it returned, the id was pushed and marked.
C21_FetchFailureSkipsOneId ==
    /\ [][\A p \in Procs :
            (AtId(p, "fetch") /\ pc'[p] = "loop") =>
                /\ io' = {Call("fetch", Row(p).id, MsgId(p))}
                /\ UNCHANGED <<store, fetched, pushCalls, delivered, pushFailed, markCalls>>
                /\ processed'[p] = processed[p]
                /\ max_ms'[p] = max_ms[p]
                /\ msg_ids'[p] = msg_ids[p]
                /\ mi'[p] = mi[p] + 1
                /\ outcome'[p] = Append(outcome[p], "failed")]_vars
    /\ [](\A p \in Procs :
            Done(p) =>
                /\ Len(outcome[p]) = Len(msg_ids[p])
                /\ processed[p] = processed0[p] + Cardinality(IdsWith(p, "done"))
                /\ \A i \in IdsWith(p, "failed") :
                      /\ ~InLedger(KeyAt(p, i))
                      /\ KeyAt(p, i) \notin fetched
                      /\ pushCalls[KeyAt(p, i)] = 0
                      /\ \A j \in (i + 1)..Len(msg_ids[p]) :
                            /\ outcome[p][j] = "seen" <=> KeyAt(p, j) \in seen0[p]
                            /\ outcome[p][j] = "done" =>
                                  /\ KeyAt(p, j) \in fetched
                                  /\ pushCalls[KeyAt(p, j)] >= 1
                                  /\ InLedger(KeyAt(p, j)))

\* C21 witness: in the list [m2, m3] of account 1 the fetch of m2 failed and m3 was
\* fetched, pushed and marked seen after it; one message was processed and the
\* watermark stayed at 1300, the timestamp of m2 (1500) left out.
C21_Witness ==
    \E p \in Procs :
        /\ Done(p)
        /\ PrevRow(p).id = 1
        /\ msg_ids[p] = <<"m2", "m3">>
        /\ outcome[p] = <<"failed", "done">>
        /\ processed[p] = 1
        /\ <<"u1", "m3">> \in fetched
        /\ InLedger(<<"u1", "m3">>)
        /\ email_tokens[1].last_sync_ts = Some(1300)

\* A poll request is answered at its initial select: a pass is counted and no
\* pass changes its position.
SelectFailed == passes' = passes + 1 /\ pc' = pc

\* C22: when the initial select of a poll request fails, for either provider, the
\* request is answered with an error, the select is the only call made, neither
\* table is written, nothing is fetched, pushed or marked, and the handler does
\* not enter its loop over the rows: no pass holds rows or a position afterwards
\* that it did not hold before.
C22_SelectFailureIsFatal ==
    [][SelectFailed =>
          /\ io' = {Call("select_tokens", 0, "")}
          /\ UNCHANGED <<store, fetched, pushCalls, delivered, pushFailed, markCalls>>
          /\ UNCHANGED <<rows, idx, token, msg_ids, mi, processed>>
          /\ \E p \in Procs :
                /\ pc[p] = "idle"
                /\ provider'[p] \in Providers
                /\ result'[p] = [status |-> "error", processed |-> 0]
                /\ \A q \in Procs \ {p} : result'[q] = result[q]]_vars

\* C22 witness: the select of an outlook_poll request, the second request made, has
\* just failed: the request is answered with an error and the accounts and the
\* ledger are as they were linked.
C22_Witness ==
    \E p \in Procs :
        /\ passes = 2
        /\ pc[p] = "idle"
        /\ provider[p] = "outlook"
        /\ result[p] = [status |-> "error", processed |-> 0]
        /\ io = {Call("select_tokens", 0, "")}
        /\ email_tokens[2].provider = "outlook"
        /\ email_tokens[2].last_sync_ts = None
        /\ email_seen = SetToBag(InitSeen)

\* C23: while a pass is at an id of a list, the ids before it and no others have an
\* outcome; the id is fetched only after the ledger check found it unseen, with no
\* fetch or push of it made before; it is pushed only once fetched; it is marked
\* seen only once fetched and handed to push_to_n8n, and the counter grows in the
\* step that marks it; every call of a step is about the row and the id the pass
\* is at; and a last_sync_ts update is issued only when every id of the row's list
\* has its outcome, after which the pass has left the row, so that no mark_seen of
\* the row follows it in the pass.
C23_StepOrder ==
    /\ [](\A p \in Procs :
            /\ pc[p] \in {"loop", "fetch", "push", "mark"} => Len(outcome[p]) = mi[p] - 1
            /\ AtId(p, "fetch") =>
                  /\ ~InLedger(Key(p))
                  /\ Key(p) \notin fetched
                  /\ pushCalls[Key(p)] = 0
            /\ AtId(p, "push") =>
                  /\ Key(p) \in fetched
                  /\ pushCalls[Key(p)] = 0
                  /\ markCalls[Key(p)] = 0
            /\ AtId(p, "mark") =>
                  /\ Key(p) \in fetched
                  /\ pushCalls[Key(p)] = 1
                  /\ markCalls[Key(p)] = 0)
    /\ [][\A c \in io' :
            c.op \in {"select_seen", "fetch", "post", "upsert_seen", "update_watermark"} =>
                \E p \in Procs :
                    /\ pc[p] \in {"loop", "fetch", "push", "mark"}
                    /\ c.acct = Row(p).id
                    /\ Row(p).id \notin completed[p]
                    /\ c.op = "select_seen" => AtId(p, "loop") /\ c.msg = MsgId(p)
                    /\ c.op = "fetch" => AtId(p, "fetch") /\ c.msg = MsgId(p)
                    /\ c.op = "post" => AtId(p, "push") /\ c.msg = MsgId(p)
                    /\ c.op = "upsert_seen" =>
                          /\ AtId(p, "mark")
                          /\ c.msg = MsgId(p)
                          /\ processed'[p] = processed[p] + 1
                          /\ mi'[p] = mi[p] + 1
                    /\ c.op = "update_watermark" =>
                          /\ LoopOver(p)
                          /\ Len(outcome[p]) = Len(msg_ids[p])
                          /\ Row(p).id \in completed'[p]
                          /\ idx'[p] = idx[p] + 1]_vars
    /\ [][\A k \in Keys :
            /\ markCalls'[k] # markCalls[k] => Sent("upsert_seen") # {}
            /\ pushCalls'[k] # pushCalls[k] =>
                  \E p \in Procs : AtId(p, "push") /\ k = Key(p) /\ pc'[p] = "mark"]_vars

\* C23 witness: the last_sync_ts update of account 1 has just been issued, after
\* both ids of its list [m2, m3] were fetched, pushed and marked seen in that
\* order; the watermark is the timestamp of m2.
C23_Witness ==
    \E p \in Procs :
        /\ Done(p)
        /\ PrevRow(p).id = 1
        /\ io = {Call("update_watermark", 1, "")}
        /\ msg_ids[p] = <<"m2", "m3">>
        /\ outcome[p] = <<"done", "done">>
        /\ markCalls[<<"u1", "m2">>] = 1
        /\ markCalls[<<"u1", "m3">>] = 1
        /\ email_tokens[1].last_sync_ts = Some(1500)

\* The step is a callback request.
CallbackDone == Sent("exchange") # {}

\* C24: a callback request leaves every existing row and the ledger as they were;
\* when the exchange was answered with a status other than 200 or raised, or the
\* insert failed, the user is redirected to the failure URL; whenever the user is
\* redirected to the failure URL no row was added; when the exchange gave a token
\* and the insert succeeded the user is redirected to the success URL; and
\* whenever the user is redirected to the success URL exactly one row was added,
\* with user_id = state, the provider of the callback and a null watermark.
C24_CallbackAtomic ==
    [][CallbackDone =>
          /\ \A a \in DOMAIN email_tokens :
                a \in DOMAIN email_tokens' /\ email_tokens'[a] = email_tokens[a]
          /\ email_seen' = email_seen
          /\ oauth'.redirect \in {"true", "false"}
          /\ (oauth'.exchange \in {"non200", "raised"} \/ oauth'.insert = "failed") =>
                oauth'.redirect = "false"
          /\ (oauth'.exchange = "200" /\ oauth'.insert = "ok") => oauth'.redirect = "true"
          /\ oauth'.redirect = "false" => DOMAIN email_tokens' = DOMAIN email_tokens
          /\ oauth'.redirect = "true" =>
                \E a \in DOMAIN email_tokens' :
                    /\ a \notin DOMAIN email_tokens
                    /\ DOMAIN email_tokens' = DOMAIN email_tokens \cup {a}
                    /\ email_tokens'[a].id = a
                    /\ email_tokens'[a].user_id = oauth'.state
                    /\ email_tokens'[a].provider = oauth'.provider
                    /\ email_tokens'[a].last_sync_ts = None]_vars

\* C24 witness: a Gmail callback for u1, who has a Gmail account already, has
\* inserted row 3 beside it; a later Outlook callback for u3 got its token and
\* failed at the insert: the user was sent to the failure URL and the table still
\* has the three rows.
C24_Witness ==
    /\ oauth.provider = "outlook"
    /\ oauth.state = "u3"
    /\ oauth.exchange = "200"
    /\ oauth.insert = "failed"
    /\ oauth.redirect = "false"
    /\ DOMAIN email_tokens = {1, 2, 3}
    /\ email_tokens[1].user_id = "u1"
    /\ email_tokens[1].last_sync_ts = Some(1300)
    /\ email_tokens[3].user_id = "u1"
    /\ email_tokens[3].provider = "gmail"
    /\ email_tokens[3].last_sync_ts = None

\* C25 as stated: what a pass does with the ids of an account does not depend on
\* the other accounts, two Gmail accounts of one user included: an id of an
\* account's list is skipped as seen only if mark_seen was called for it while that
\* same account was polled.
C25_AccountsIndependent ==
    [][\A p \in Procs :
          (AtId(p, "loop") /\ outcome'[p] = Append(outcome[p], "seen")) =>
              <<Row(p).id, MsgId(p)>> \in seenBy]_vars

\* The messages in the mailbox of account a that are not in the ledger of its user.
Unseen(a) == {m \in Mailbox(a) : ~InLedger(<<email_tokens[a].user_id, m>>)}

\* C26 as stated: as long as a message of an Outlook inbox is not in the ledger,
\* the list the next pass gets from the watermark now stored holds an id that is
\* not in the ledger, so that every pass whose calls succeed fetches and pushes at
\* least one more message and repeated passes reach every message.
C26_PagingLosesNoMessage ==
    \A p \in Procs :
        (Done(p) /\ provider[p] = "outlook") =>
            (Unseen(PrevRow(p).id) # {} =>
                 Ids(StoredList(PrevRow(p).id)) \cap Unseen(PrevRow(p).id) # {})

\* No id of the list of the row pass p is at was fetched with a positive timestamp:
\* each id was skipped, or its fetch failed, or its message carries no timestamp
\* or the timestamp 0.
NoPositiveTimestamp(p) ==
    \A i \in 1..Len(outcome[p]) :
        outcome[p][i] = "done" => ~TruthyInt(MessageTs(msg_ids[p][i]))

\* C27: the stored watermark of an account is never 0; and when the id loop of a
\* row that was read with a null watermark ends without a message of a positive
\* timestamp fetched, the step that leaves the row makes no call and writes no
\* table, so that the watermark stays null and the list the next pass gets is
\* the one that is not filtered by time.
C27_NullWatermarkKept ==
    /\ [](\A a \in Accounts : email_tokens[a].last_sync_ts # Some(0))
    /\ [][\A p \in Procs, a \in Accounts :
            (/\ LoopOver(p)
             /\ Steps(p)
             /\ a = Row(p).id
             /\ Row(p).last_sync_ts = None
             /\ NoPositiveTimestamp(p)) =>
                /\ io' = {}
                /\ UNCHANGED store
                /\ email_tokens'[a].last_sync_ts = None
                /\ StoredList(a)' =
                       (IF email_tokens[a].provider = "gmail"
                        THEN GmailList(a, None, email_tokens[a].subject_filter)
                        ELSE OutlookList(a, None))]_vars

\* C27 witness: account 2, never polled, has ended a row in which m3 was skipped
\* or failed and m4, which carries no timestamp, was fetched, pushed and marked
\* seen: no update was issued and its watermark is still null.
C27_Witness ==
    \E p \in Procs :
        /\ Done(p)
        /\ PrevRow(p).id = 2
        /\ PrevRow(p).last_sync_ts = None
        /\ "m4" \in Ids(msg_ids[p])
        /\ \E i \in 1..Len(msg_ids[p]) : msg_ids[p][i] = "m4" /\ outcome[p][i] = "done"
        /\ \E i \in 1..Len(msg_ids[p]) : msg_ids[p][i] = "m3" /\ outcome[p][i] # "done"
        /\ io = {}
        /\ email_tokens[2].last_sync_ts = None

\* C28: a step of a poll pass keeps the set of account rows and every record of
\* the ledger; it changes a row only while a pass of the row's provider is at that
\* row, and then never its id, user_id, provider or subject_filter; it changes
\* last_sync_ts only by the watermark update of that row and the access token,
\* the expiry or the refresh token only by a token refresh of that row.
C28_PollFrame ==
    [][/\ DOMAIN email_tokens' = DOMAIN email_tokens
       /\ \A k \in Keys : CopiesIn(k, email_seen') >= CopiesIn(k, email_seen)
       /\ \A a \in Accounts :
             email_tokens'[a] # email_tokens[a] =>
                 /\ \E p \in Procs :
                       /\ pc[p] # "idle"
                       /\ idx[p] \in 1..Len(rows[p])
                       /\ Row(p).id = a
                       /\ provider[p] = email_tokens[a].provider
                 /\ email_tokens'[a].id = email_tokens[a].id
                 /\ email_tokens'[a].user_id = email_tokens[a].user_id
                 /\ email_tokens'[a].provider = email_tokens[a].provider
                 /\ email_tokens'[a].subject_filter = email_tokens[a].subject_filter
                 /\ email_tokens'[a].last_sync_ts # email_tokens[a].last_sync_ts =>
                       io' = {Call("update_watermark", a, "")}
                 /\ (\/ email_tokens'[a].access_token # email_tokens[a].access_token
                     \/ email_tokens'[a].expires_at # email_tokens[a].expires_at
                     \/ email_tokens'[a].refresh_token # email_tokens[a].refresh_token) =>
                       io' = {Call("refresh", a, ""), Call("update_tokens", a, "")}]_vars

\* C28 witness: a Gmail pass has refreshed the token of account 1 and moved its
\* watermark to 1500, and has recorded m2; the Outlook account 2 is as it was
\* linked and the record of m0 is still in the ledger.
C28_Witness ==
    \E p \in Procs :
        /\ PassOver(p)
        /\ provider[p] = "gmail"
        /\ email_tokens[1].access_token = "at1"
        /\ email_tokens[1].last_sync_ts = Some(1500)
        /\ email_tokens[1].subject_filter = None
        /\ email_tokens[2].provider = "outlook"
        /\ email_tokens[2].access_token = "at0"
        /\ email_tokens[2].last_sync_ts = None
        /\ InLedger(<<"u1", "m0">>)
        /\ InLedger(<<"u1", "m2">>)

====
